---- MODULE Spec2Model ----
(***************************************************************************)
(* Model of generate_2d_irregular_ocean_propagating_fields.py: the wave    *)
(* field generator generate_irregular_waves and the frame loop driving it. *)
(*                                                                         *)
(* Reals are fixed-point integers with Scale units per 1.0 (the source     *)
(* computes in IEEE doubles); a product or quotient is rounded down to the *)
(* next unit.  A dict is a function whose DOMAIN is its key set; None is a *)
(* record with present = FALSE.                                            *)
(***************************************************************************)
EXTENDS Integers, Sequences, FiniteSets

VARIABLES
    held,    \* the caller's variable wave_params: None or the dict it refers to
    rng,     \* number of values the shared random source has handed out
    call,    \* the arguments of the latest call; passed = the dict as it was passed
    res,     \* what the latest call returned, or the exception it raised, and the
             \* number of random values it consumed
    est,     \* history: the dict populated by the latest time == 0 call that
             \* returned, while every call since has been a time # 0 call given it
    twin,    \* history: eta of the call before, when the latest call repeated it
             \* (the same arguments and the same dict object, populated)
    run,     \* the script's parameters
    frame,   \* the frame loop's index
    files,   \* frame indices whose image file has been written
    dpc      \* the script's position: "off", "loop", "done" or "crashed"

vars == <<held, rng, call, res, est, twin, run, frame, files, dpc>>

\* ------------------------------------------------------------ bounds

\* Largest num_waves a call is given (the script uses 1000).
MaxWaves == 2
\* grid_size of every call (the script uses 210).
GridSize == 4
\* Number of np.random.rand() values the random source can hand out.
MaxDraws == 10
\* Largest num_frames of the frame loop (the script uses 5000).
MaxFrames == 3

\* ------------------------------------------------------------ numbers

Scale == 10 ^ 3
\* np.pi in fixed point.
Pi == 3142
TwoPi == 2 * Pi

Mul(a, b) == (a * b) \div Scale
\* a / b of two Python floats, b > 0 (b = 0 raises; see FreshComponent).
Div(a, b) == (a * Scale) \div b

RECURSIVE SqrtSearch(_, _, _)
SqrtSearch(v, lo, hi) ==
    IF lo >= hi THEN lo
    ELSE LET mid == (lo + hi + 1) \div 2
         IN  IF mid * mid <= v THEN SqrtSearch(v, mid, hi)
                               ELSE SqrtSearch(v, lo, mid - 1)

\* np.sqrt of a fixed-point value v >= 0.
Sqrt(v) == SqrtSearch(v * Scale, 0, 46340)

\* sin on [0, pi], by Bhaskara's rational approximation.
SinHalf(a) ==
    LET p == Mul(a, Pi - a)
    IN  (16 * p * Scale) \div (5 * Mul(Pi, Pi) - 4 * p)

\* np.sin of a fixed-point angle in radians.
Sin(a) ==
    LET r == a % TwoPi
    IN  IF r <= Pi THEN SinHalf(r) ELSE 0 - SinHalf(r - Pi)

\* ------------------------------------------------------------ inputs

\* Values np.random.rand() returns: the half-open interval [0, 1).
RandValues == {0, Scale \div 2}
\* length_scale = 10.0
LengthScales == {10 * Scale}
Speeds == {2 * Scale}
Times == {0, Scale \div 5, Scale}
\* time_interval = 0.2
TimeIntervals == {0, Scale \div 5, 0 - Scale}
NumWaves == 0 .. MaxWaves

\* ------------------------------------------------------------ data

Keys == {"amplitude", "wavelength", "kx", "ky", "phase", "frequency"}

Absent == [present |-> FALSE, map |-> <<>>]
Present(m) == [present |-> TRUE, map |-> m]

\* Mutant of Store: the component lands one index too far.
StoreNext(m, i, c) ==
    [j \in (DOMAIN m) \cup {i + 1} |-> IF j = i + 1 THEN c ELSE m[j]]

\* wave_params[i] = c
Store(m, i, c) == [j \in (DOMAIN m) \cup {i} |-> IF j = i THEN c ELSE m[j]]

\* Dicts a caller builds by hand.
UnitComponent ==
    [amplitude |-> Scale, wavelength |-> Scale, kx |-> Scale, ky |-> 0,
     phase |-> 0, frequency |-> 0]
UnitNoWavelength ==
    [amplitude |-> Scale, kx |-> Scale, ky |-> 0, phase |-> 0, frequency |-> 0]
HandBuilt ==
    { <<>>,
      Store(<<>>, 0, UnitComponent),
      Store(Store(<<>>, 0, UnitComponent), 1, UnitNoWavelength) }

\* ------------------------------------------------------------ the grid

\* np.linspace(start, stop, num)[j], j = 0 .. num-1
Linspace(start, stop, num, j) ==
    IF num = 1 THEN start
    ELSE IF j = num - 1 THEN stop
    ELSE start + j * ((stop - start) \div (num - 1))

\* x, y = np.meshgrid(x, y): x varies along a row, y down a column.
MeshX(grid_size, r, c) == Linspace(0, TwoPi, grid_size, c - 1)
MeshY(grid_size, r, c) == Linspace(0, TwoPi, grid_size, r - 1)

\* Mutant of ZeroField: the field of the call before is not cleared.
StaleField(grid_size) ==
    IF res.status = "ok" /\ Len(res.eta) = grid_size
    THEN res.eta
    ELSE [r \in 1 .. grid_size |-> [c \in 1 .. grid_size |-> 0]]

\* np.zeros((grid_size, grid_size))
ZeroField(grid_size) == [r \in 1 .. grid_size |-> [c \in 1 .. grid_size |-> 0]]

\* ------------------------------------------------------------ one call

\* Mutant of IsInitialFrame: every frame draws its components anew.
IsAnyFrame(time) == time >= 0

\* Mutant of IsInitialFrame: time is compared with 0 up to a tolerance.
IsNearZero(time) == time < Scale

\* time == 0
IsInitialFrame(time) == time = 0

\* range(num_waves)
WaveRange(num_waves) == 0 .. num_waves - 1

\* Mutant of Dispersion: ky is left out.
DispersionX(speed, kx, ky) == Mul(Div(speed, TwoPi), Sqrt(Mul(kx, kx)))

\* frequency = (speed / (2 * np.pi)) * np.sqrt(kx**2 + ky**2)
Dispersion(speed, kx, ky) ==
    Mul(Div(speed, TwoPi), Sqrt(Mul(kx, kx) + Mul(ky, ky)))

\* The time == 0 branch for one index.  d is the five values the random source
\* returns next.  2 * np.pi / wavelength is evaluated before the third value is
\* drawn: with wavelength 0.0 it raises ZeroDivisionError after two draws
\* (np.random.rand() and length_scale = 10.0 are Python floats, and so is their
\* product).
FreshComponent(length_scale, speed, d) ==
    LET amplitude  == Div(d[1], 10 * Scale)
        wavelength == Mul(d[2], length_scale)
    IN  IF wavelength = 0
        THEN [status |-> "ZeroDivisionError", used |-> 2, comp |-> <<>>]
        ELSE LET kx == Mul(Div(TwoPi, wavelength), 2 * d[3] - Scale)
                 ky == Mul(Div(TwoPi, wavelength), 2 * d[4] - Scale)
                 phase == Mul(TwoPi, d[5])
             IN  [status |-> "ok", used |-> 5,
                  comp |-> [amplitude |-> amplitude, wavelength |-> wavelength,
                            kx |-> kx, ky |-> ky, phase |-> phase,
                            frequency |-> Dispersion(speed, kx, ky)]]

\* Mutant of Lookup: a missing entry is replaced by a flat component.
LookupOrDefault(m, i) ==
    IF i \in DOMAIN m /\ Keys \subseteq DOMAIN m[i]
    THEN [status |-> "ok", used |-> 0, comp |-> m[i]]
    ELSE [status |-> "ok", used |-> 0,
          comp |-> [amplitude |-> 0, wavelength |-> Scale, kx |-> 0, ky |-> 0,
                    phase |-> 0, frequency |-> 0]]

\* The else branch for one index: six lookups wave_params[i][key].
Lookup(m, i) ==
    IF i \in DOMAIN m /\ Keys \subseteq DOMAIN m[i]
    THEN [status |-> "ok", used |-> 0, comp |-> m[i]]
    ELSE [status |-> "KeyError", used |-> 0, comp |-> <<>>]

\* amplitude * np.sin(kx * x + ky * y - frequency * time + phase) at one point
Term(c, x, y, time) ==
    Mul(c.amplitude,
        Sin(Mul(c.kx, x) + Mul(c.ky, y) - Mul(c.frequency, time) + c.phase))

\* eta += amplitude * np.sin(...)
Accumulate(eta, grid_size, c, time) ==
    [r \in 1 .. grid_size |-> [k \in 1 .. grid_size |->
        eta[r][k] + Term(c, MeshX(grid_size, r, k), MeshY(grid_size, r, k), time)]]

\* One pass of the loop body for index i.  st holds eta, the dict and the number
\* of random values consumed so far.
Body(a, draws, i, st) ==
    LET got == IF IsInitialFrame(a.time)
               THEN FreshComponent(a.length_scale, a.speed,
                                   [k \in 1 .. 5 |-> draws[st.used + k]])
               ELSE Lookup(st.map, i)
    IN  IF got.status # "ok"
        THEN [st EXCEPT !.status = got.status, !.used = @ + got.used]
        ELSE [status |-> "ok",
              eta |-> Accumulate(st.eta, a.grid_size, got.comp, a.time),
              map |-> IF IsInitialFrame(a.time)
                      THEN Store(st.map, i, got.comp) ELSE st.map,
              used |-> st.used + got.used]

\* for i in range(num_waves), from index i on; an exception ends the loop.
RECURSIVE Loop(_, _, _, _)
Loop(a, draws, i, st) ==
    IF i \notin WaveRange(a.num_waves) \/ st.status # "ok" THEN st
    ELSE Loop(a, draws, i + 1, Body(a, draws, i, st))

\* generate_irregular_waves(grid_size, num_waves, length_scale, time, speed,
\* wave_params): the state in which the call returns or raises.
GenerateIrregularWaves(a, wave_params, draws) ==
    Loop(a, draws, 0,
         [status |-> "ok", eta |-> ZeroField(a.grid_size),
          map |-> IF wave_params.present THEN wave_params.map ELSE <<>>,
          used |-> 0])

\* ------------------------------------------------------------ callers

Args == [grid_size : {GridSize}, num_waves : NumWaves, length_scale : LengthScales,
         time : Times, speed : Speeds]

\* The values the random source returns to a call that needs them.
DrawsFor(a) ==
    IF ~IsInitialFrame(a.time) THEN {<<>>}
    ELSE IF rng + 5 * a.num_waves > MaxDraws THEN {}
    ELSE [1 .. 5 * a.num_waves -> RandValues]

NoCall == [made |-> FALSE, args |-> <<>>, passed |-> Absent]
NoResult == [status |-> "none", eta |-> <<>>, params |-> Absent, used |-> 0]
NoEst == [present |-> FALSE, map |-> <<>>, num_waves |-> 0, speed |-> 0]
NoTwin == [present |-> FALSE, eta |-> <<>>]

\* eta, wave_params = generate_irregular_waves(..., wave_params): the call and the
\* caller's assignment of what it returns.  A dict that was passed is the object
\* the call writes to; an exception leaves the caller's variable as it was.
Call(a, wp, draws) ==
    \E out \in {GenerateIrregularWaves(a, wp, draws)} :
    LET ok  == out.status = "ok"
    IN  /\ call' = [made |-> TRUE, args |-> a, passed |-> wp]
        /\ res' = IF ok THEN [status |-> "ok", eta |-> out.eta,
                              params |-> Present(out.map), used |-> out.used]
                        ELSE [status |-> out.status, eta |-> <<>>,
                              params |-> Absent, used |-> out.used]
        /\ held' = IF ok \/ wp.present THEN Present(out.map) ELSE held
        /\ rng' = rng + out.used
        /\ est' = IF a.time = 0
                  THEN IF ok THEN [present |-> TRUE, map |-> out.map,
                                   num_waves |-> a.num_waves, speed |-> a.speed]
                             ELSE NoEst
                  ELSE IF wp.present THEN est ELSE NoEst
        /\ twin' = IF call.made /\ call.args = a /\ call.passed.present
                       /\ WaveRange(a.num_waves) \subseteq DOMAIN call.passed.map
                       /\ wp.present /\ res.status = "ok"
                   THEN [present |-> TRUE, eta |-> res.eta]
                   ELSE NoTwin

\* Any caller: a call with any arguments, given the caller's wave_params.
Generate ==
    /\ dpc = "off"
    /\ \E a \in Args : \E draws \in DrawsFor(a) : Call(a, held, draws)
    /\ UNCHANGED <<run, frame, files, dpc>>

\* A caller builds a dict by hand to pass it; the dict has been through no call.
Supply ==
    /\ dpc = "off"
    /\ \E m \in HandBuilt : held' = Present(m)
    /\ call' = NoCall
    /\ res' = NoResult
    /\ est' = NoEst
    /\ twin' = NoTwin
    /\ UNCHANGED <<rng, run, frame, files, dpc>>

NoRun == [num_frames |-> 0, time_interval |-> 0, num_waves |-> 0,
          length_scale |-> 0, speed |-> 0]

Init ==
    /\ held = Absent
    /\ rng = 0
    /\ call = NoCall
    /\ res = NoResult
    /\ est = NoEst
    /\ twin = NoTwin
    /\ run = NoRun
    /\ frame = 0
    /\ files = <<>>
    /\ dpc = "off"

Next == Generate \/ Supply

Spec == Init /\ [][Next]_vars

\* ------------------------------------------------------------ the script

Runs == [num_frames : 1 .. MaxFrames, time_interval : TimeIntervals,
         num_waves : NumWaves, length_scale : LengthScales, speed : Speeds]

\* wave_params = None, before the loop
DriverInit ==
    /\ held = Absent
    /\ rng = 0
    /\ call = NoCall
    /\ res = NoResult
    /\ est = NoEst
    /\ twin = NoTwin
    /\ run \in Runs
    /\ frame = 0
    /\ files = <<>>
    /\ dpc = "loop"

\* One pass of the for loop: the call, then the plot saved as frame_<frame>.png.
\* An exception is not caught: it ends the script.
DriverFrame ==
    /\ dpc = "loop"
    /\ frame < run.num_frames
    /\ LET a == [grid_size |-> GridSize, num_waves |-> run.num_waves,
                 length_scale |-> run.length_scale,
                 time |-> frame * run.time_interval, speed |-> run.speed]
       IN  \E draws \in DrawsFor(a) : Call(a, held, draws)
    /\ IF res'.status = "ok"
       THEN /\ files' = Append(files, frame)
            /\ frame' = frame + 1
            /\ dpc' = "loop"
       ELSE /\ dpc' = "crashed"
            /\ UNCHANGED <<frame, files>>
    /\ UNCHANGED run

\* The loop is exhausted: print(...)
DriverDone ==
    /\ dpc = "loop"
    /\ frame = run.num_frames
    /\ dpc' = "done"
    /\ UNCHANGED <<held, rng, call, res, est, twin, run, frame, files>>

DriverNext == DriverFrame \/ DriverDone

DriverSpec == DriverInit /\ [][DriverNext]_vars

\* ------------------------------------------------------------ properties

LastTime == call.args.time
LastWaves == call.args.num_waves
Returned == call.made /\ res.status = "ok"

\* The dict passed to the latest call held an entry for every index it needed.
Populated ==
    /\ call.made
    /\ call.passed.present
    /\ LastWaves >= 1
    /\ WaveRange(LastWaves) \subseteq DOMAIN call.passed.map

\* C1 (parameter stability): once a time == 0 call has populated the dict, every
\* later time # 0 call that is given it leaves it entry for entry as it was
\* established, and returns it so.
C1_ParameterStability ==
    est.present =>
        /\ held = Present(est.map)
        /\ Returned => res.params = Present(est.map)

C1_Witness ==
    /\ est.present
    /\ Returned
    /\ LastTime # 0
    /\ est.num_waves = MaxWaves
    /\ LastWaves = est.num_waves
    /\ twin.present

\* C2 (missing-parameter failure): a call with time # 0 and num_waves >= 1 whose
\* wave_params is absent, empty or lacks some index below num_waves raises
\* KeyError and returns neither a field nor a dict.
C2_MissingParameterFailure ==
    ( /\ call.made
      /\ LastTime # 0
      /\ LastWaves >= 1
      /\ \/ ~call.passed.present
         \/ \E i \in WaveRange(LastWaves) : i \notin DOMAIN call.passed.map )
    => /\ res.status = "KeyError"
       /\ res.eta = <<>>
       /\ ~res.params.present

C2_Witness ==
    /\ call.made
    /\ LastTime # 0
    /\ LastWaves = 2
    /\ call.passed.present
    /\ DOMAIN call.passed.map = {0}
    /\ Keys \subseteq DOMAIN call.passed.map[0]
    /\ res.status = "KeyError"

\* C3 (zero-time completeness): a call with time == 0, num_waves >= 1 and an
\* empty or absent wave_params returns a dict whose key set is exactly
\* 0 .. num_waves-1, every entry with the six attributes.
C3_ZeroTimeCompleteness ==
    ( /\ call.made
      /\ LastTime = 0
      /\ LastWaves >= 1
      /\ ~call.passed.present \/ DOMAIN call.passed.map = {} )
    => /\ res.status = "ok"
       /\ DOMAIN res.params.map = WaveRange(LastWaves)
       /\ \A i \in WaveRange(LastWaves) : DOMAIN res.params.map[i] = Keys

\* The part of C3 the code keeps: such a call that returns, returns that dict.
C3_WhenReturned ==
    ( /\ Returned
      /\ LastTime = 0
      /\ ~call.passed.present \/ DOMAIN call.passed.map = {} )
    => /\ DOMAIN res.params.map = WaveRange(LastWaves)
       /\ \A i \in WaveRange(LastWaves) : DOMAIN res.params.map[i] = Keys

\* C4 (determinism), as claimed: for every time, 0 included, two calls in a row
\* with the same arguments and the same populated dict return the same field.
C4_Determinism ==
    (twin.present /\ Returned /\ Populated) => res.eta = twin.eta

\* C4 as amended: the same for every time # 0.
C4_DeterminismNonZeroTime ==
    (twin.present /\ Returned /\ Populated /\ LastTime # 0) => res.eta = twin.eta

C4_Witness ==
    /\ twin.present
    /\ Returned
    /\ Populated
    /\ LastTime # 0
    /\ LastWaves = 2
    /\ \E r, c \in 1 .. GridSize : res.eta[r][c] # 0

\* C5 (no side effects), as claimed: whatever the time, the dict passed in has
\* the contents after the call that it had before, and a call with time # 0
\* consumes no random value.
C5_NoSideEffects ==
    call.made =>
        /\ call.passed.present => held = call.passed
        /\ LastTime # 0 => res.used = 0

\* C5 as amended: a call with time # 0 leaves the dict passed in as it was and
\* consumes no random value; a call with time == 0 writes the dict passed in,
\* at indices below num_waves only, and removes no key.
C5_SideEffects ==
    call.made =>
        /\ LastTime # 0 =>
              /\ call.passed.present => held = call.passed
              /\ res.used = 0
        /\ (LastTime = 0 /\ call.passed.present) =>
              /\ held.present
              /\ DOMAIN call.passed.map \subseteq DOMAIN held.map
              /\ DOMAIN held.map \subseteq
                     DOMAIN call.passed.map \cup WaveRange(LastWaves)
              /\ \A j \in DOMAIN call.passed.map :
                     j \notin WaveRange(LastWaves) => held.map[j] = call.passed.map[j]

C5_Witness ==
    /\ Returned
    /\ LastTime = 0
    /\ LastWaves = 1
    /\ call.passed.present
    /\ DOMAIN call.passed.map = {0, 1}
    /\ held.map[0] # call.passed.map[0]
    /\ held.map[1] = call.passed.map[1]

\* C6 (generated ranges): in a time == 0 call with length_scale > 0, whatever the
\* random source returns, 2 * pi / wavelength is defined and every component has
\* its amplitude in [0, 0.1) and its wavelength in (0, length_scale).
C6_GeneratedRanges ==
    (call.made /\ LastTime = 0 /\ call.args.length_scale > 0) =>
        /\ res.status # "ZeroDivisionError"
        /\ Returned =>
              \A i \in WaveRange(LastWaves) :
                 /\ 0 <= res.params.map[i].amplitude
                 /\ res.params.map[i].amplitude < Scale \div 10
                 /\ 0 < res.params.map[i].wavelength
                 /\ res.params.map[i].wavelength < call.args.length_scale

\* The sum of the values of the function f, each index of its domain once.
RECURSIVE SumOver(_)
SumOver(f) ==
    IF DOMAIN f = {} THEN 0
    ELSE LET i == CHOOSE j \in DOMAIN f : TRUE
         IN  f[i] + SumOver([j \in DOMAIN f \ {i} |-> f[j]])

Tolerance(v) == v \div 50 + 5

\* (2*pi*frequency)^2 = speed^2 * (kx^2 + ky^2), within Tolerance
DispersionHolds(c, speed) ==
    LET lhs == Mul(Mul(TwoPi, c.frequency), Mul(TwoPi, c.frequency))
        rhs == Mul(Mul(speed, speed), Mul(c.kx, c.kx) + Mul(c.ky, c.ky))
    IN  lhs - rhs <= Tolerance(rhs) /\ rhs - lhs <= Tolerance(rhs)

\* C8 (dispersion relation): every component a time == 0 call stored satisfies
\* frequency = (speed / (2*pi)) * sqrt(kx^2 + ky^2) for that call's speed, and
\* still does after any number of time # 0 calls given the dict.
C8_DispersionRelation ==
    est.present =>
        \A i \in WaveRange(est.num_waves) : DispersionHolds(held.map[i], est.speed)

C8_Witness ==
    /\ est.present
    /\ est.num_waves = 2
    /\ Returned
    /\ LastTime # 0
    /\ held.map[0].ky # 0
    /\ held.map[1].kx # 0
    /\ held.map[1].frequency # 0

\* C9 (driver ordering): with time_interval # 0 the loop calls for frames 0, 1,
\* ... in order with time = frame * time_interval, draws random values at frame 0
\* only, never raises KeyError, and ends after num_frames calls with one file
\* per frame index.
C9_DriverOrdering ==
    run.time_interval # 0 =>
        /\ res.status # "KeyError"
        /\ files = [k \in 1 .. frame |-> k - 1]
        /\ (call.made /\ LastTime # 0) => res.used = 0
        /\ (call.made /\ res.status = "ok") =>
              LastTime = (frame - 1) * run.time_interval
        /\ dpc # "loop" => (dpc = "done" /\ frame = run.num_frames)

\* The part of C9 the code keeps: the same, but for a frame-0 call that raises
\* ZeroDivisionError and ends the script.
C9_UnlessZeroDivision ==
    run.time_interval # 0 =>
        /\ res.status # "KeyError"
        /\ files = [k \in 1 .. frame |-> k - 1]
        /\ (call.made /\ LastTime # 0) => res.used = 0
        /\ (call.made /\ res.status = "ok") =>
              LastTime = (frame - 1) * run.time_interval
        /\ dpc = "done" => frame = run.num_frames
        /\ dpc = "crashed" =>
              (frame = 0 /\ LastTime = 0 /\ res.status = "ZeroDivisionError")

\* C10 (regeneration at time 0): a call with time == 0 and a populated dict
\* stores a freshly drawn component at every index below num_waves and leaves
\* every other entry as it was, so that entries at indices >= num_waves stay in
\* the returned dict.
C10_RegenerationAtTimeZero ==
    (Populated /\ LastTime = 0) =>
        /\ Returned
        /\ res.used = 5 * LastWaves
        /\ DOMAIN res.params.map = DOMAIN call.passed.map
        /\ \A j \in DOMAIN call.passed.map :
              j \notin WaveRange(LastWaves) => res.params.map[j] = call.passed.map[j]

\* The part of C10 the code keeps: such a call that returns has done so.
C10_WhenReturned ==
    (Populated /\ LastTime = 0 /\ Returned) =>
        /\ res.used = 5 * LastWaves
        /\ DOMAIN res.params.map = DOMAIN call.passed.map
        /\ \A j \in DOMAIN call.passed.map :
              j \notin WaveRange(LastWaves) => res.params.map[j] = call.passed.map[j]

====
